---- MODULE Spec2Model ----
(***************************************************************************)
(* State-access layer of the contracting runtime:                          *)
(*   Driver        string-keyed facade over the byte-keyed store           *)
(*   CacheDriver   per-execution cache / read set / pending writes         *)
(*   ContractDriver prefix queries (items / values) and key building       *)
(* Keys are byte strings (sequences of character codes); values are small  *)
(* integers; None is Python's None.                                        *)
(***************************************************************************)
EXTENDS Integers, Sequences, FiniteSets, Bags, TLC

VARIABLES db, cache, reads, pending_writes, fetched, start_db, committed, last,
          orm, events, other

vars == <<db, cache, reads, pending_writes, fetched, start_db, committed, last,
          orm, events, other>>

(***************************************************************************)
(* Bounds                                                                  *)
(***************************************************************************)
\* values a contract writes are 1..MaxVal
MaxVal == 2

\* Python's None
None == -1

Vals == 1..MaxVal
ValsOrNone == Vals \cup {None}

\* "c.f:1", "c.f:1:2"
Keys == { <<99, 46, 102, 58, 49>>,
          <<99, 46, 102, 58, 49, 58, 50>> }

\* "c.e", "c.f:", "c.f:1:", "c.g"
Prefixes == { <<99, 46, 101>>,
              <<99, 46, 102, 58>>,
              <<99, 46, 102, 58, 49, 58>>,
              <<99, 46, 103>> }

\* contracting.constants: "." between contract and field, ":" between the
\* dimensions of a coordinate; the two limits are scaled down
INDEX_SEPARATOR == <<46>>
DELIMITER == <<58>>
MAX_HASH_DIMENSIONS == 2
MAX_KEY_SIZE == 7

(***************************************************************************)
(* Python dict helpers (a dict is a function on the set of its keys)       *)
(***************************************************************************)
EmptyDict == [x \in {} |-> None]

DictPut(d, k, v) == [x \in (DOMAIN d) \cup {k} |-> IF x = k THEN v ELSE d[x]]

DictDel(d, k) == [x \in (DOMAIN d) \ {k} |-> d[x]]

\* dict.get(k): None when the key is missing
DictGet(d, k) == IF k \in DOMAIN d THEN d[k] ELSE None

\* bytes.startswith / str.startswith
StartsWith(k, p) ==
    /\ Len(p) <= Len(k)
    /\ \A i \in 1..Len(p) : k[i] = p[i]

\* lexicographic order on byte strings
RECURSIVE BytesLess(_, _)
BytesLess(a, b) ==
    IF Len(b) = 0 THEN FALSE
    ELSE IF Len(a) = 0 THEN TRUE
    ELSE IF a[1] # b[1] THEN a[1] < b[1]
    ELSE BytesLess(Tail(a), Tail(b))

(***************************************************************************)
(* Value codec and raw store (collaborators)                               *)
(***************************************************************************)
\* the store's answer for a missing key
Absent == <<>>

\* the end-of-range sentinel of the store's cursor: a byte string that is
\* no key
STOP_ITER_RESPONSE == <<255>>

\* encode(value).encode(): the decimal digit of a small integer
encode(v) == <<48 + v>>

\* decode(bytes): None for a missing value
decode(b) == IF b = Absent THEN None ELSE b[1] - 48

RawGet(d, k) == IF k \in DOMAIN d THEN d[k] ELSE Absent

\* the keys of the store from position p on, in ascending byte order
RECURSIVE SortKeys(_)
SortKeys(S) ==
    IF S = {} THEN <<>>
    ELSE LET m == CHOOSE x \in S : \A y \in S \ {x} : BytesLess(x, y)
         IN  <<m>> \o SortKeys(S \ {m})

RawSeek(d, p) == SortKeys({k \in DOMAIN d : ~BytesLess(k, p)})

(***************************************************************************)
(* Driver                                                                  *)
(***************************************************************************)
Driver_get(d, item) == decode(RawGet(d, item))

Driver_delitem(d, key) == DictDel(d, key)

\* a Driver.set that ignores None instead of deleting
Driver_set_NoDelete(d, key, value) ==
    IF value = None THEN d
    ELSE DictPut(d, key, encode(value))

Driver_set(d, key, value) ==
    IF value = None THEN Driver_delitem(d, key)
    ELSE DictPut(d, key, encode(value))

\* the loop of Driver.iter over the cursor rest; l is the list built so
\* far; self.db.next() gives the next key, the sentinel at the end
RECURSIVE IterLoop(_, _, _, _)
IterLoop(rest, p, length, l) ==
    LET k == IF rest = <<>> THEN STOP_ITER_RESPONSE ELSE Head(rest)
    IN  IF ~StartsWith(k, p) THEN l
        ELSE LET l2 == IF k # STOP_ITER_RESPONSE THEN Append(l, k) ELSE l
             IN  IF 0 < length /\ length <= Len(l2) THEN l2
                 ELSE IF k = STOP_ITER_RESPONSE THEN l2
                 ELSE IterLoop(Tail(rest), p, length, l2)

\* an iter that takes no limit
Driver_iter_Unlimited(d, prefix, length) == IterLoop(RawSeek(d, prefix), prefix, 0, <<>>)

Driver_iter(d, prefix, length) == IterLoop(RawSeek(d, prefix), prefix, length, <<>>)

Range(s) == {s[i] : i \in 1..Len(s)}

(***************************************************************************)
(* Initial states: a fresh CacheDriver over the backing store.             *)
(*   fetched   keys CacheDriver.get has fetched from the Driver since the  *)
(*             last reset                                                  *)
(*   start_db  the backing store when the current execution started (at    *)
(*             construction or at the last reset)                          *)
(*   committed whether commit() was called in the current execution        *)
(*   last      what the last call did: its arguments, its result, the      *)
(*             Driver calls it made, the metering events it reported;      *)
(*             refetch: the key had been fetched before in this execution; *)
(*             again: the call before was a commit() too; dropped and      *)
(*             wascommitted: the keys staged and whether commit() had been *)
(*             called when the reset happened                              *)
(*   orm       what the last call on an ORM binding (Variable, Hash,       *)
(*             ForeignVariable, ForeignHash) was: the binding, the method, *)
(*             its coordinate, the exception it raised, its result         *)
(*   events    the event log of the driver (set_event appends to it)       *)
(*   other     a second CacheDriver over the same backing store: its       *)
(*             cache, read set and pending writes; after: the keys it      *)
(*             committed after a commit() of the first driver              *)
(***************************************************************************)
Stores == UNION {[S -> {encode(v) : v \in Vals}] : S \in SUBSET Keys}

NoOp == [op |-> "init", key |-> <<>>, val |-> None, ret |-> None,
         items |-> EmptyDict, vals |-> EmptyBag, dbops |-> {},
         refetch |-> FALSE, again |-> FALSE, dropped |-> {},
         wascommitted |-> FALSE, meter |-> <<>>, keys |-> <<>>]

NoCoord == [tuple |-> FALSE, dims |-> <<>>]

\* CacheDriver.__init__ of the second driver
NoOther == [cache |-> EmptyDict, reads |-> {}, pending_writes |-> EmptyDict, after |-> {}]

\* no data passed, no schema
NoData == <<>>

\* rt.context of a call that does not read it
NoContext == [signer |-> "", caller |-> ""]

\* a call on a binding: the kind of binding, the (contract, name) it was
\* constructed with, the method, the coordinate or the data passed, the
\* exception raised, its message and the argument the message names (both
\* kept for LogEvent only), the result
Call(obj, bind, op, coord, data, err, arg, ret) ==
    [obj |-> obj, bind |-> bind, op |-> op, coord |-> coord, data |-> data,
     err |-> err, msg |-> "", arg |-> arg, ret |-> ret, context |-> NoContext]

OrmNone == Call("", <<>>, "none", NoCoord, NoData, "", "", None)

\* the store is empty at first (flush_full); commit() fills it
Init ==
    /\ orm = OrmNone
    /\ events = <<>>
    /\ other = NoOther
    /\ db = EmptyDict
    /\ start_db = db
    /\ committed = FALSE
    /\ cache = EmptyDict
    /\ reads = {}
    /\ pending_writes = EmptyDict
    /\ fetched = {}
    /\ last = NoOp

(***************************************************************************)
(* CacheDriver                                                             *)
(***************************************************************************)
Get(key) ==
    LET v  == DictGet(cache, key)
        dv == Driver_get(db, key)
    IN  IF v # None
        THEN /\ last' = [NoOp EXCEPT !.op = "get", !.key = key, !.ret = v,
                                     !.meter = << <<"read", key, v>> >>]
             /\ UNCHANGED <<events, other>>
             /\ UNCHANGED <<db, cache, reads, pending_writes, fetched, start_db, committed>>
        ELSE /\ cache' = DictPut(cache, key, dv)
             /\ reads' = reads \cup {key}
             /\ fetched' = fetched \cup {key}
             /\ UNCHANGED <<events, other>>
             /\ last' = [NoOp EXCEPT !.op = "get", !.key = key, !.ret = dv,
                                     !.dbops = { <<"get", key>> },
                                     !.refetch = (key \in fetched),
                                     !.meter = << <<"read", key, dv>> >>]
             /\ UNCHANGED <<db, pending_writes, start_db, committed>>

\* a set that stages the write without updating the cache
Set_NoCache(key, value) ==
    /\ pending_writes' = DictPut(pending_writes, key, value)
    /\ UNCHANGED <<events, other>>
    /\ last' = [NoOp EXCEPT !.op = "set", !.key = key, !.val = value,
                            !.meter = << <<"write", key, value>> >>]
    /\ UNCHANGED <<db, cache, reads, fetched, start_db, committed>>

\* a write-through set
Set_WriteThrough(key, value) ==
    /\ cache' = DictPut(cache, key, value)
    /\ pending_writes' = DictPut(pending_writes, key, value)
    /\ db' = Driver_set(db, key, value)
    /\ UNCHANGED <<events, other>>
    /\ last' = [NoOp EXCEPT !.op = "set", !.key = key, !.val = value,
                            !.dbops = { <<"set", key, value>> },
                            !.meter = << <<"write", key, value>> >>]
    /\ UNCHANGED <<reads, fetched, start_db, committed>>

Set(key, value) ==
    /\ cache' = DictPut(cache, key, value)
    /\ pending_writes' = DictPut(pending_writes, key, value)
    /\ UNCHANGED <<events, other>>
    /\ last' = [NoOp EXCEPT !.op = "set", !.key = key, !.val = value,
                            !.meter = << <<"write", key, value>> >>]
    /\ UNCHANGED <<db, reads, fetched, start_db, committed>>

\* for k, v in pending_writes.items(): driver.set(k, v)
\* (every key occurs once, so the result does not depend on the order)
\* a commit that removes an entry it finds already applied
RECURSIVE CommitLoop_Toggle(_, _, _)
CommitLoop_Toggle(d, pw, todo) ==
    IF todo = {} THEN d
    ELSE LET k == CHOOSE x \in todo : TRUE
             d2 == IF Driver_get(d, k) = pw[k] THEN Driver_delitem(d, k)
                   ELSE Driver_set(d, k, pw[k])
         IN  CommitLoop_Toggle(d2, pw, todo \ {k})

RECURSIVE CommitLoop(_, _, _)
CommitLoop(d, pw, todo) ==
    IF todo = {} THEN d
    ELSE LET k == CHOOSE x \in todo : TRUE
         IN  CommitLoop(Driver_set(d, k, pw[k]), pw, todo \ {k})

\* a commit that empties the pending-write set once applied
Commit_Clears ==
    /\ db' = CommitLoop(db, pending_writes, DOMAIN pending_writes)
    /\ pending_writes' = EmptyDict
    /\ UNCHANGED <<events, other>>
    /\ last' = [NoOp EXCEPT !.op = "commit", !.again = (last.op = "commit"),
                   !.dbops = { <<"set", k, pending_writes[k]>> : k \in DOMAIN pending_writes }]
    /\ committed' = TRUE
    /\ UNCHANGED <<cache, reads, fetched, start_db>>

\* a commit that applies the pending writes only the first time
Commit_Once ==
    /\ db' = IF committed THEN db ELSE CommitLoop(db, pending_writes, DOMAIN pending_writes)
    /\ UNCHANGED <<events, other>>
    /\ last' = [NoOp EXCEPT !.op = "commit", !.again = (last.op = "commit"),
                   !.dbops = { <<"set", k, pending_writes[k]>> : k \in DOMAIN pending_writes }]
    /\ committed' = TRUE
    /\ UNCHANGED <<cache, reads, pending_writes, fetched, start_db>>

Commit ==
    /\ db' = CommitLoop(db, pending_writes, DOMAIN pending_writes)
    /\ UNCHANGED <<events, other>>
    /\ last' = [NoOp EXCEPT !.op = "commit", !.again = (last.op = "commit"),
                   !.dbops = { <<"set", k, pending_writes[k]>> : k \in DOMAIN pending_writes }]
    /\ committed' = TRUE
    /\ UNCHANGED <<cache, reads, pending_writes, fetched, start_db>>

\* a reset that keeps the cache
ClearPendingState_KeepsCache ==
    /\ reads' = {}
    /\ pending_writes' = EmptyDict
    /\ fetched' = {}
    /\ start_db' = db
    /\ committed' = FALSE
    /\ UNCHANGED <<events, other>>
    /\ last' = [NoOp EXCEPT !.op = "clear", !.dropped = DOMAIN pending_writes,
                            !.wascommitted = committed]
    /\ UNCHANGED <<db, cache>>

\* a reset that also restores the store to what it held at the start
ClearPendingState_Reverts ==
    /\ cache' = EmptyDict
    /\ reads' = {}
    /\ pending_writes' = EmptyDict
    /\ fetched' = {}
    /\ db' = start_db
    /\ start_db' = start_db
    /\ committed' = FALSE
    /\ UNCHANGED <<events, other>>
    /\ last' = [NoOp EXCEPT !.op = "clear", !.dropped = DOMAIN pending_writes,
                            !.wascommitted = committed]

ClearPendingState ==
    /\ cache' = EmptyDict
    /\ reads' = {}
    /\ pending_writes' = EmptyDict
    /\ fetched' = {}
    /\ start_db' = db
    /\ committed' = FALSE
    /\ UNCHANGED <<events, other>>
    /\ last' = [NoOp EXCEPT !.op = "clear", !.dropped = DOMAIN pending_writes,
                            !.wascommitted = committed]
    /\ UNCHANGED db

(***************************************************************************)
(* ContractDriver                                                          *)
(***************************************************************************)
\* keys of the cache under the prefix
CachedUnder(prefix) == {k \in DOMAIN cache : StartsWith(k, prefix)}

\* db_keys - keys: persisted keys under the prefix not taken from the cache
DbOnlyUnder(prefix) == Range(Driver_iter(db, prefix, 0)) \ CachedUnder(prefix)

items(prefix) ==
    [k \in CachedUnder(prefix) \cup DbOnlyUnder(prefix) |->
        IF k \in CachedUnder(prefix) THEN cache[k] ELSE Driver_get(db, k)]

RECURSIVE DictValues(_, _)
DictValues(d, todo) ==
    IF todo = {} THEN EmptyBag
    ELSE LET k == CHOOSE x \in todo : TRUE
         IN  SetToBag({d[k]}) (+) DictValues(d, todo \ {k})

\* list(d.values()), order disregarded
values(prefix) == DictValues(items(prefix), DOMAIN items(prefix))

ItemsDbOps(prefix) ==
    { <<"iter", prefix>> } \cup { <<"get", k>> : k \in DbOnlyUnder(prefix) }

\* an items that keeps what it fetched in the cache and in the read set
Items_ReadThrough(prefix) ==
    /\ UNCHANGED <<events, other>>
    /\ cache' = [k \in DOMAIN cache \cup DbOnlyUnder(prefix) |->
                    IF k \in DOMAIN cache THEN cache[k] ELSE Driver_get(db, k)]
    /\ reads' = reads \cup DbOnlyUnder(prefix)
    /\ last' = [NoOp EXCEPT !.op = "items", !.key = prefix,
                            !.items = items(prefix),
                            !.dbops = ItemsDbOps(prefix)]
    /\ UNCHANGED <<db, pending_writes, fetched, start_db, committed>>

Items(prefix) ==
    /\ UNCHANGED <<events, other>>
    /\ last' = [NoOp EXCEPT !.op = "items", !.key = prefix,
                            !.items = items(prefix),
                            !.dbops = ItemsDbOps(prefix)]
    /\ UNCHANGED <<db, cache, reads, pending_writes, fetched, start_db, committed>>

Values(prefix) ==
    /\ UNCHANGED <<events, other>>
    /\ last' = [NoOp EXCEPT !.op = "values", !.key = prefix,
                            !.vals = values(prefix),
                            !.dbops = ItemsDbOps(prefix)]
    /\ UNCHANGED <<db, cache, reads, pending_writes, fetched, start_db, committed>>

\* ContractDriver.make_key: key, delimiter, field, then ":" and each argument
RECURSIVE make_key_args(_)
make_key_args(args) ==
    IF args = <<>> THEN <<>>
    ELSE <<58>> \o Head(args) \o make_key_args(Tail(args))

make_key(key, field, args) == key \o INDEX_SEPARATOR \o field \o make_key_args(args)

\* the attributes of a ContractDriver: those CacheDriver.__init__ sets
\* (ContractDriver has no __init__ and no class attribute of its own)
ContractDriver_attrs == {"driver", "cache", "reads", "pending_writes"}

\* delete(key): a write of None, staged like any other write
Delete(c, key) == DictPut(c, key, None)

(***************************************************************************)
(* Python values of several kinds, as a contract passes them to a binding: *)
(* the ints 0 and 1, False, and the str 'a'.  A class is given by its      *)
(* name; a type argument is a class, a tuple of classes, or None:          *)
(* [isclass, types].                                                       *)
(***************************************************************************)
PyVals == 0..3

\* type(value)
type(value) ==
    IF value = None THEN "NoneType"
    ELSE IF value \in {0, 1} THEN "int"
    ELSE IF value = 2 THEN "bool"
    ELSE "str"

\* issubclass(c, d) for one class d: bool is a subclass of int
issubclass(c, d) == c = d \/ (c = "bool" /\ d = "int")

\* isinstance(value, types) for a tuple of classes
isinstance(value, types) ==
    \E i \in DOMAIN types : issubclass(type(value), types[i])

Class(c) == [isclass |-> TRUE, types |-> <<c>>]
ClassTuple(cs) == [isclass |-> FALSE, types |-> cs]
NoType == [isclass |-> FALSE, types |-> <<>>]

(***************************************************************************)
(* ORM bindings (orm.py).  A coordinate is a scalar or a tuple of scalars, *)
(* each given by its str() form: [tuple, dims]; a scalar has one dim.      *)
(***************************************************************************)
\* k in s (substring test)
Contains(s, k) ==
    \E i \in 1..(Len(s) - Len(k) + 1) : SubSeq(s, i, i + Len(k) - 1) = k

\* new_key_str: every dimension followed by the delimiter
RECURSIVE new_key_str(_, _)
new_key_str(dims, delimiter) ==
    IF dims = <<>> THEN <<>>
    ELSE Head(dims) \o delimiter \o new_key_str(Tail(dims), delimiter)

\* s[:-n]
DropLast(s, n) == SubSeq(s, 1, Len(s) - n)

\* the per-dimension checks without the separator assertion
RECURSIVE DimsError_NoSeparator(_)
DimsError_NoSeparator(dims) ==
    IF dims = <<>> THEN ""
    ELSE IF Contains(Head(dims), DELIMITER) THEN "Illegal delimiter in key."
    ELSE DimsError_NoSeparator(Tail(dims))

\* the first assertion of the per-dimension checks that fails, "" if none
RECURSIVE DimsError(_)
DimsError(dims) ==
    IF dims = <<>> THEN ""
    ELSE IF Contains(Head(dims), DELIMITER) THEN "Illegal delimiter in key."
    ELSE IF Contains(Head(dims), INDEX_SEPARATOR) THEN "Illegal separator in key."
    ELSE DimsError(Tail(dims))

TooLong(key) == IF Len(key) <= MAX_KEY_SIZE THEN "" ELSE "Key is too long"

\* the failure of: assert len(key) <= constants.MAX_HASH_DIMENSIONS
TooManyDimensions_Unchecked(key) == FALSE

TooManyDimensions(key) == ~(Len(key.dims) <= MAX_HASH_DIMENSIONS)

\* an int given as a dimension of a coordinate: the number n, apart from
\* every string
int(n) == <<-1, n>>

\* the decimal digits of n >= 0
RECURSIVE Digits(_)
Digits(n) == IF n < 10 THEN <<48 + n>> ELSE Digits(n \div 10) \o <<48 + (n % 10)>>

\* str(k) of a dimension: the digits of an int, a string as it is
str(k) == IF k # <<>> /\ k[1] = -1 THEN Digits(k[2]) ELSE k

\* k = str(k) for every k in key
StrDims(dims) == [i \in DOMAIN dims |-> str(dims[i])]

\* Hash._validate_key: the coordinate string, or the assertion that failed
validate_key(key) ==
    IF key.tuple
    THEN IF TooManyDimensions(key)
         THEN [err |-> "Too many dimensions", key |-> <<>>]
         ELSE IF DimsError(StrDims(key.dims)) # ""
         THEN [err |-> DimsError(StrDims(key.dims)), key |-> <<>>]
         ELSE LET k == DropLast(new_key_str(StrDims(key.dims), DELIMITER), Len(DELIMITER))
              IN  [err |-> TooLong(k), key |-> k]
    ELSE LET k == str(key.dims[1])
         IN  IF DimsError(<<k>>) # ""
             THEN [err |-> DimsError(<<k>>), key |-> <<>>]
             ELSE [err |-> TooLong(k), key |-> k]

\* Hash._prefix_for_args
prefix_for_args(h, args) ==
    LET multi == validate_key(args).key
    IN  h.key \o DELIMITER \o (IF multi # <<>> THEN multi \o DELIMITER ELSE <<>>)

\* the key Hash._get / Hash._set address
hash_key(h, key) == h.key \o DELIMITER \o key

\* Datum.__init__ and the constructors of the bindings
Datum(contract, name) == make_key(contract, name, <<>>)

\* Variable.__init__: _type is t when t is a class (isinstance(t, type))
Variable(contract, name, t) ==
    [obj |-> "Variable", contract |-> contract, name |-> name,
     key |-> Datum(contract, name), default_value |-> None,
     type |-> IF t.isclass THEN t ELSE NoType]

Hash(contract, name, default_value) ==
    [obj |-> "Hash", contract |-> contract, name |-> name,
     key |-> Datum(contract, name), default_value |-> default_value]

ForeignVariable(contract, name, foreign_contract, foreign_name) ==
    [obj |-> "ForeignVariable", contract |-> contract, name |-> name,
     key |-> make_key(foreign_contract, foreign_name, <<>>), default_value |-> None,
     type |-> NoType]

ForeignHash(contract, name, foreign_contract, foreign_name) ==
    [obj |-> "ForeignHash", contract |-> contract, name |-> name,
     key |-> make_key(foreign_contract, foreign_name, <<>>), default_value |-> None]

DriverState == <<db, cache, reads, pending_writes, fetched, start_db, committed>>

\* the call raises before it reaches the driver
RaiseWith(h, op, coord, data, err, arg) ==
    /\ orm' = Call(h.obj, <<h.contract, h.name>>, op, coord, data, err, arg, None)
    /\ UNCHANGED <<events, other>>
    /\ last' = [NoOp EXCEPT !.op = "none"]
    /\ UNCHANGED DriverState

Raise(h, op, coord, err) == RaiseWith(h, op, coord, NoData, err, "")

Return(h, op, coord, ret) ==
    orm' = Call(h.obj, <<h.contract, h.name>>, op, coord, NoData, "", "", ret)

\* Hash.__getitem__ (ForeignHash.__getitem__ calls it); values are integers
\* here, so _get returns them as they are
GetItem(h, key) ==
    LET r == validate_key(key)
    IN  IF r.err # "" THEN Raise(h, "getitem", key, "AssertionError")
        ELSE /\ Get(hash_key(h, r.key))
             /\ Return(h, "getitem", key,
                       IF last'.ret = None THEN h.default_value ELSE last'.ret)

\* an item assignment that stages the write before it validates the key
SetItem_StageFirst(h, key, value) ==
    LET r == validate_key(key)
    IN  /\ Set(hash_key(h, r.key), value)
        /\ orm' = Call(h.obj, <<h.contract, h.name>>, "setitem", key, NoData,
                       IF r.err # "" THEN "AssertionError" ELSE "", "", None)

\* an item assignment that ForeignHash does not override
SetItem_NoOverride(h, key, value) ==
    LET r == validate_key(key)
    IN  IF r.err # "" THEN Raise(h, "setitem", key, "AssertionError")
        ELSE /\ Set(hash_key(h, r.key), value)
             /\ Return(h, "setitem", key, None)

\* Hash.__setitem__, ForeignHash.__setitem__
SetItem(h, key, value) ==
    IF h.obj = "ForeignHash" THEN Raise(h, "setitem", key, "ReferenceError")
    ELSE LET r == validate_key(key)
         IN  IF r.err # "" THEN Raise(h, "setitem", key, "AssertionError")
             ELSE /\ Set(hash_key(h, r.key), value)
                  /\ Return(h, "setitem", key, None)

\* Hash._set, ForeignHash._set: the key is used as given
SetRaw(h, key, value) ==
    IF h.obj = "ForeignHash" THEN Raise(h, "_set", key, "ReferenceError")
    ELSE /\ Set(hash_key(h, key.dims[1]), value)
         /\ Return(h, "_set", key, None)

\* Hash.all
All(h, args) ==
    IF validate_key(args).err # "" THEN Raise(h, "all", args, "AssertionError")
    ELSE /\ Values(prefix_for_args(h, args))
         /\ Return(h, "all", args, None)

\* Hash._items
HashItems(h, args) ==
    IF validate_key(args).err # "" THEN Raise(h, "_items", args, "AssertionError")
    ELSE /\ Items(prefix_for_args(h, args))
         /\ Return(h, "_items", args, None)

\* for k in kvs.keys(): driver.delete(k)
RECURSIVE DeleteLoop(_, _)
DeleteLoop(c, todo) ==
    IF todo = {} THEN c
    ELSE LET k == CHOOSE x \in todo : TRUE
         IN  DeleteLoop(Delete(c, k), todo \ {k})

DeleteMeter(ks) == [i \in 1..Len(ks) |-> <<"write", ks[i], None>>]

\* Hash.clear, ForeignHash.clear
Clear(h, args) ==
    IF h.obj = "ForeignHash" THEN Raise(h, "clear", args, "Exception")
    ELSE IF validate_key(args).err # "" THEN Raise(h, "clear", args, "AssertionError")
    ELSE LET prefix == prefix_for_args(h, args)
             kvs == items(prefix)
         IN  /\ cache' = DeleteLoop(cache, DOMAIN kvs)
             /\ pending_writes' = DeleteLoop(pending_writes, DOMAIN kvs)
             /\ UNCHANGED <<events, other>>
             /\ last' = [NoOp EXCEPT !.op = "delete", !.key = prefix, !.items = kvs,
                                     !.dbops = ItemsDbOps(prefix),
                                     !.meter = DeleteMeter(SortKeys(DOMAIN kvs))]
             /\ UNCHANGED <<db, reads, fetched, start_db, committed>>
             /\ Return(h, "clear", args, None)

\* Variable.set, ForeignVariable.set; the call record keeps the value
VarSet(v, value) ==
    IF v.obj = "ForeignVariable"
    THEN RaiseWith(v, "set", NoCoord, value, "ReferenceError", "")
    ELSE IF v.type # NoType /\ ~isinstance(value, v.type.types)
    THEN RaiseWith(v, "set", NoCoord, value, "AssertionError", "")
    ELSE /\ Set(v.key, value)
         /\ orm' = Call(v.obj, <<v.contract, v.name>>, "set", NoCoord, value, "", "", None)

\* Variable.get
VarGet(v) ==
    /\ Get(v.key)
    /\ Return(v, "get", NoCoord, last'.ret)

(***************************************************************************)
(* LogEvent.  args is the schema dict in its insertion order: a sequence   *)
(* of [name, type, idx], idx being arg.get('idx', False); event_data is a  *)
(* dict from argument names to values.                                     *)
(***************************************************************************)
\* how many events the log takes
MaxEvents == 2

\* (str, int, float, ContractingDecimal, bool)
AllowedClasses == <<"str", "int", "float", "ContractingDecimal", "bool">>

\* sum(1 for arg in args.values() if arg.get('idx', False))
indexed_args_count(args) == Cardinality({i \in DOMAIN args : args[i].idx})

\* a limit of four indexed arguments
TooManyIndexed_Four(args) == ~(indexed_args_count(args) <= 4)

\* the failure of: assert indexed_args_count <= 3
TooManyIndexed(args) == ~(indexed_args_count(args) <= 3)

\* all(issubclass(t, (str, int, float, ContractingDecimal, bool)) for t in types)
TypesAllowed(types) ==
    \A j \in DOMAIN types :
        \E a \in DOMAIN AllowedClasses : issubclass(types[j], AllowedClasses[a])

\* the assertion of LogEvent.__init__ that fails, "" if none (arg['type'] is
\* a tuple by then, so the length check on a str type never applies)
ArgsError(args) ==
    IF ~(Len(args) > 0) THEN "Args must have at least one argument."
    ELSE IF TooManyIndexed(args) THEN "Args must have at most three indexed arguments."
    ELSE IF \E i \in DOMAIN args : ~TypesAllowed(args[i].type.types)
    THEN "Each type in args must be str, int, float, ContractingDecimal, or bool."
    ELSE ""

\* LogEvent.__init__: every type becomes a tuple of classes
LogEvent(contract, name, args) ==
    [obj |-> "LogEvent", contract |-> contract, name |-> name,
     key |-> Datum(contract, name),
     args |-> [i \in DOMAIN args |->
                  [name |-> args[i].name, type |-> args[i].type.types, idx |-> args[i].idx]],
     err |-> ArgsError(args)]

\* a call that makes no driver call
NoDriverCall(call) ==
    /\ orm' = call
    /\ UNCHANGED <<events, other>>
    /\ last' = [NoOp EXCEPT !.op = "none"]
    /\ UNCHANGED DriverState

\* the construction LogEvent(contract, name, args)
NewLogEvent(contract, name, args) ==
    LET le == LogEvent(contract, name, args)
    IN  NoDriverCall([Call("LogEvent", <<contract, name>>, "__init__", NoCoord, args,
                           IF le.err # "" THEN "AssertionError" ELSE "", "", None)
                         EXCEPT !.msg = le.err])

\* a write_event without the check of the number of arguments
CountError_Unchecked(le, event_data) == ""

\* the failure of: assert len(event_data) == len(self._args)
CountError(le, event_data) ==
    IF Cardinality(DOMAIN event_data) = Len(le.args) THEN ""
    ELSE "Data must have the same number of arguments as specified in the event."

\* the loop over self._args: the first assertion that fails and the argument
\* its message names
RECURSIVE DataError(_, _, _)
DataError(le, event_data, i) ==
    IF i > Len(le.args) THEN [msg |-> "", arg |-> ""]
    ELSE LET a == le.args[i]
         IN  IF a.name \notin DOMAIN event_data
             THEN [msg |-> "Argument is missing from the data dictionary.", arg |-> a.name]
             ELSE IF ~isinstance(event_data[a.name], a.type)
             THEN [msg |-> "Argument is the wrong type!", arg |-> a.name]
             ELSE DataError(le, event_data, i + 1)

\* an event whose indexed_args hold every argument
indexed_args_All(le, event_data) ==
    [n \in {le.args[i].name : i \in DOMAIN le.args} |-> event_data[n]]

indexed_args(le, event_data) ==
    [n \in {le.args[i].name : i \in {j \in DOMAIN le.args : le.args[j].idx}} |-> event_data[n]]

non_indexed_args(le, event_data) ==
    [n \in {le.args[i].name : i \in {j \in DOMAIN le.args : ~le.args[j].idx}} |-> event_data[n]]

\* an event dict with the signer and caller of the time the channel was
\* constructed
event_AtConstruction(le, event_data, context) ==
    [contract |-> le.contract, event |-> le.name,
     signer |-> "alice", caller |-> "con",
     indexed_args |-> indexed_args(le, event_data),
     non_indexed_args |-> non_indexed_args(le, event_data)]

\* the event dict; signer and caller come from rt.context
event(le, event_data, context) ==
    [contract |-> le.contract, event |-> le.name,
     signer |-> context.signer, caller |-> context.caller,
     indexed_args |-> indexed_args(le, event_data),
     non_indexed_args |-> non_indexed_args(le, event_data)]

\* encode_kv(arg, value)
encode_kv(arg, value) == <<arg, encode(value)>>

\* the rt.deduct_write calls of the two loops: indexed arguments first, each
\* group in the order of the schema
deduct_writes(le, event_data) ==
    LET order == SelectSeq(le.args, LAMBDA a : a.idx) \o
                 SelectSeq(le.args, LAMBDA a : ~a.idx)
    IN  [i \in DOMAIN order |->
            LET encoded == encode_kv(order[i].name, event_data[order[i].name])
            IN  <<"write", encoded[1], encoded[2]>>]

\* a write_event that checks the value of an argument only when it meters it
WriteEvent_MeterFirst(le, event_data, context, budget) ==
    LET c == CountError(le, event_data)
        d == DataError(le, event_data, 1)
        w == deduct_writes(le, event_data)
        call(err, msg, arg) ==
            [Call(le.obj, <<le.contract, le.name>>, "write_event", NoCoord, event_data,
                  err, arg, None) EXCEPT !.msg = msg, !.context = context]
    IN  /\ Len(events) < MaxEvents
        /\ IF c # "" THEN NoDriverCall(call("AssertionError", c, ""))
           ELSE IF d.msg # ""
           THEN IF {le.args[i].name : i \in DOMAIN le.args} \subseteq DOMAIN event_data
                THEN /\ orm' = call("AssertionError", d.msg, d.arg)
                     /\ last' = [NoOp EXCEPT !.op = "write_event", !.meter = w]
                     /\ UNCHANGED <<events, other>>
                     /\ UNCHANGED DriverState
                ELSE NoDriverCall(call("AssertionError", d.msg, d.arg))
           ELSE IF budget < Len(w)
           THEN /\ orm' = call("ResourceExhausted", "", "")
                /\ last' = [NoOp EXCEPT !.op = "write_event", !.meter = SubSeq(w, 1, budget)]
                /\ UNCHANGED <<events, other>>
                /\ UNCHANGED DriverState
           ELSE /\ orm' = call("", "", "")
                /\ last' = [NoOp EXCEPT !.op = "write_event", !.meter = w]
                /\ events' = Append(events, event(le, event_data, context))
                /\ UNCHANGED other
                /\ UNCHANGED DriverState

\* LogEvent.write_event; metering accepts `budget` writes and raises at the
\* next one
WriteEvent(le, event_data, context, budget) ==
    LET c == CountError(le, event_data)
        d == DataError(le, event_data, 1)
        w == deduct_writes(le, event_data)
        call(err, msg, arg) ==
            [Call(le.obj, <<le.contract, le.name>>, "write_event", NoCoord, event_data,
                  err, arg, None) EXCEPT !.msg = msg, !.context = context]
    IN  /\ Len(events) < MaxEvents
        /\ IF c # "" THEN NoDriverCall(call("AssertionError", c, ""))
           ELSE IF d.msg # "" THEN NoDriverCall(call("AssertionError", d.msg, d.arg))
           ELSE IF budget < Len(w)
           THEN /\ orm' = call("ResourceExhausted", "", "")
                /\ last' = [NoOp EXCEPT !.op = "write_event", !.meter = SubSeq(w, 1, budget)]
                /\ UNCHANGED <<events, other>>
                /\ UNCHANGED DriverState
           ELSE /\ orm' = call("", "", "")
                /\ last' = [NoOp EXCEPT !.op = "write_event", !.meter = w]
                /\ events' = Append(events, event(le, event_data, context))
                /\ UNCHANGED other
                /\ UNCHANGED DriverState

\* the call ContractDriver.make_key(key, field, args) of new_driver: args is
\* None (no dimensions) or a list; reading self.delimiter raises
\* AttributeError when the object has no such attribute; last.key is the
\* key returned
MakeKey(key, field, args) ==
    /\ UNCHANGED <<events, other>>
    /\ UNCHANGED DriverState
    /\ IF "delimiter" \notin ContractDriver_attrs
       THEN /\ orm' = Call("ContractDriver", <<key, field>>, "make_key", args, NoData,
                           "AttributeError", "delimiter", None)
            /\ last' = [NoOp EXCEPT !.op = "none"]
       ELSE /\ orm' = Call("ContractDriver", <<key, field>>, "make_key", args, NoData,
                           "", "", None)
            /\ last' = [NoOp EXCEPT !.op = "make_key",
                                    !.key = make_key(key, field, args.dims)]

(***************************************************************************)
(* Specifications                                                          *)
(***************************************************************************)
\* calls on the driver itself; orm records a call made through a binding
DoGet == \E k \in Keys : Get(k) /\ orm' = OrmNone
DoSet == \E k \in Keys, v \in ValsOrNone : Set(k, v) /\ orm' = OrmNone
DoCommit == Commit /\ orm' = OrmNone
DoClearPendingState == ClearPendingState /\ orm' = OrmNone
DoItems == \E p \in Prefixes : Items(p) /\ orm' = OrmNone
DoValues == \E p \in Prefixes : Values(p) /\ orm' = OrmNone

Next == DoGet \/ DoSet \/ DoCommit \/ DoClearPendingState \/ DoItems \/ DoValues

Spec == Init /\ [][Next]_vars

(***************************************************************************)
(* The map Hash("c", "f", default_value=0) over the driver                 *)
(***************************************************************************)
Scalar(d) == [tuple |-> FALSE, dims |-> <<d>>]
Tuple(ds) == [tuple |-> TRUE, dims |-> ds]

TheHash == Hash(<<99>>, <<102>>, 0)

\* coordinates read and written: '1'; ('1', '2'); and rejected ones: '1:2', '1.2',
\* ('1', '2', '1'), ('1', '2:'), '12121212'
SetCoords == { Scalar(<<49>>),
               Tuple(<< <<49>>, <<50>> >>),
               Scalar(<<49, 58, 50>>),
               Scalar(<<49, 46, 50>>),
               Tuple(<< <<49>>, <<50>>, <<49>> >>),
               Tuple(<< <<49>>, <<50, 58>> >>),
               Scalar(<<49, 50, 49, 50, 49, 50, 49, 50>>) }


\* arguments of all, _items and clear: (), ('1',), ('',), ('1:2',),
\* ('1', '2', '1')
ArgTuples == { Tuple(<<>>),
               Tuple(<< <<49>> >>),
               Tuple(<< <<>> >>),
               Tuple(<< <<49, 58, 50>> >>),
               Tuple(<< <<49>>, <<50>>, <<49>> >>) }

HashGetItem == \E key \in SetCoords : GetItem(TheHash, key)
HashSetItem == \E key \in SetCoords, v \in ValsOrNone : SetItem(TheHash, key, v)
HashAll == \E args \in ArgTuples : All(TheHash, args)
HashItemsOf == \E args \in ArgTuples : HashItems(TheHash, args)
HashClear == \E args \in ArgTuples : Clear(TheHash, args)

NextHash ==
    HashGetItem \/ HashSetItem \/ HashAll \/ HashItemsOf \/ HashClear \/ DoCommit

SpecHash == Init /\ [][NextHash]_vars

(***************************************************************************)
(* The same map used with coordinates near the key size limit: '1',        *)
(* ('1', '22') and '12121212'                                              *)
(***************************************************************************)
BudgetCoords == { Scalar(<<49>>),
                  Tuple(<< <<49>>, <<50, 50>> >>),
                  Scalar(<<49, 50, 49, 50, 49, 50, 49, 50>>) }

BudgetGetItem == \E key \in BudgetCoords : GetItem(TheHash, key)
BudgetSetItem == \E key \in BudgetCoords, v \in ValsOrNone : SetItem(TheHash, key, v)

NextBudget == BudgetGetItem \/ BudgetSetItem \/ DoCommit

SpecBudget == Init /\ [][NextBudget]_vars

(***************************************************************************)
(* Two maps, one with default_value=1 and one without a default            *)
(***************************************************************************)
HashWithDefault == Hash(<<99>>, <<102>>, 1)
HashNoDefault == Hash(<<99>>, <<103>>, None)
DefaultHashes == {HashWithDefault, HashNoDefault}

DefaultGetItem == \E h \in DefaultHashes : GetItem(h, Scalar(<<49>>))
DefaultSetItem ==
    \E h \in DefaultHashes, v \in PyVals \cup {None} : SetItem(h, Scalar(<<49>>), v)

NextDefault == DefaultGetItem \/ DefaultSetItem \/ DoCommit

SpecDefault == Init /\ [][NextDefault]_vars

(***************************************************************************)
(* Cells: Variable("c", "v", t=int), Variable("c", "w") without a type and *)
(* Variable("c", "x", t=(int, str))                                        *)
(***************************************************************************)
IntCell == Variable(<<99>>, <<118>>, Class("int"))
UntypedCell == Variable(<<99>>, <<119>>, NoType)
TupleCell == Variable(<<99>>, <<120>>, ClassTuple(<<"int", "str">>))
Cells == {IntCell, UntypedCell, TupleCell}

\* values set: 1, False, 'a' and None
CellVals == {1, 2, 3, None}

CellSet == \E v \in Cells, value \in CellVals : VarSet(v, value)
CellGet == \E v \in Cells : VarGet(v)

NextCell == CellSet \/ CellGet \/ DoCommit

SpecCell == Init /\ [][NextCell]_vars

(***************************************************************************)
(* Construction of event channels, over the schemas of up to four          *)
(* arguments "from", "to", "amount", "extra"                               *)
(***************************************************************************)
ArgNames == <<"from", "to", "amount", "extra">>

\* the types tried for the i-th argument
SchemaTypes(i) ==
    IF i = 1
    THEN { Class("str"),
           Class("bool"),
           ClassTuple(<<"int", "float", "ContractingDecimal">>),
           ClassTuple(<<"int", "list">>),
           Class("list"),
           Class("CustomType") }
    ELSE { Class("str"),
           ClassTuple(<<"int", "float", "ContractingDecimal">>),
           Class("list") }

SchemasOf(n) ==
    { [i \in 1..n |-> [name |-> ArgNames[i], type |-> f[i].type, idx |-> f[i].idx]] :
        f \in { g \in [1..n -> [type : SchemaTypes(1), idx : BOOLEAN]] :
                  \A i \in 1..n : g[i].type \in SchemaTypes(i) } }

\* one channel is constructed
NextSchema ==
    /\ orm = OrmNone
    /\ \E n \in 0..Len(ArgNames) : \E args \in SchemasOf(n) :
          NewLogEvent(<<99>>, <<84>>, args)

SpecSchema == Init /\ [][NextSchema]_vars

(***************************************************************************)
(* The channel Transfer(from: str indexed, to: str indexed,                *)
(* amount: (int, float, ContractingDecimal)) of contract "c"               *)
(***************************************************************************)
TransferEvent ==
    LogEvent(<<99>>, <<84>>,
             << [name |-> "from", type |-> Class("str"), idx |-> TRUE],
                [name |-> "to", type |-> Class("str"), idx |-> TRUE],
                [name |-> "amount",
                 type |-> ClassTuple(<<"int", "float", "ContractingDecimal">>),
                 idx |-> FALSE] >>)

DataNames == {"from", "to", "amount", "unexpected_arg"}

\* the values tried for an argument: 1, False, 'a'
DataVals(n) ==
    IF n = "amount" THEN {1, 2, 3}
    ELSE IF n = "unexpected_arg" THEN {1}
    ELSE {1, 3}

EventDatas ==
    UNION { {d \in [S -> 1..3] : \A n \in S : d[n] \in DataVals(n)} : S \in SUBSET DataNames }

\* rt.context at the time of the call
Contexts == { [signer |-> "alice", caller |-> "con"],
              [signer |-> "bob", caller |-> "con"] }

NextEvent ==
    \E event_data \in EventDatas, context \in Contexts, budget \in 0..Len(TransferEvent.args) :
        WriteEvent(TransferEvent, event_data, context, budget)

SpecEvent == Init /\ [][NextEvent]_vars

(***************************************************************************)
(* Bindings side by side: the maps Hash("c", "f") and Hash("d", "f") and   *)
(* the cell Variable("c", "f"), the maps used with str and int dimensions  *)
(***************************************************************************)
MapCF == Hash(<<99>>, <<102>>, None)
MapDF == Hash(<<100>>, <<102>>, None)
CellCF == Variable(<<99>>, <<102>>, NoType)
KeysMaps == {MapCF, MapDF}

\* '1', 1, ('1', '2') and (1, '2')
KeysCoords == { Scalar(<<49>>),
                Scalar(int(1)),
                Tuple(<< <<49>>, <<50>> >>),
                Tuple(<< int(1), <<50>> >>) }

\* h[key], h[key] = 1, the cell's get() and set(1), and make_key('c', 'f'),
\* make_key('c', 'f', ['1']), make_key('c', 'f', ['1', '2'])
NextKeys ==
    \/ \E h \in KeysMaps, key \in KeysCoords : GetItem(h, key)
    \/ \E h \in KeysMaps, key \in KeysCoords : SetItem(h, key, 1)
    \/ VarGet(CellCF)
    \/ VarSet(CellCF, 1)
    \/ \E args \in {NoCoord, Tuple(<< <<49>> >>), Tuple(<< <<49>>, <<50>> >>)} :
          MakeKey(<<99>>, <<102>>, args)

SpecKeys == Init /\ [][NextKeys]_vars

(***************************************************************************)
(* Driver.iter over a store with the keys 'a', 'ab', 'abc' and 'b'         *)
(***************************************************************************)
\* how long a list iter is asked for
MaxLength == 3

IterKeys == { <<97>>, <<97, 98>>, <<97, 98, 99>>, <<98>> }

\* '', 'a', 'ab', 'b' and 'c'
IterPrefixes == { <<>>, <<97>>, <<97, 98>>, <<98>>, <<99>> }

\* Driver.set(key, value) and Driver.iter(prefix, length) on the store
StoreSet(key, value) ==
    /\ db' = Driver_set(db, key, value)
    /\ last' = [NoOp EXCEPT !.op = "driver_set", !.key = key, !.val = value]
    /\ orm' = OrmNone
    /\ UNCHANGED <<cache, reads, pending_writes, fetched, start_db, committed, events, other>>

StoreIter(prefix, length) ==
    /\ last' = [NoOp EXCEPT !.op = "iter", !.key = prefix, !.val = length,
                            !.keys = Driver_iter(db, prefix, length)]
    /\ orm' = OrmNone
    /\ UNCHANGED <<db, cache, reads, pending_writes, fetched, start_db, committed, events, other>>

NextIter ==
    \/ \E key \in IterKeys, value \in {1, None} : StoreSet(key, value)
    \/ \E prefix \in IterPrefixes, length \in 0..MaxLength : StoreIter(prefix, length)

SpecIter == Init /\ [][NextIter]_vars

(***************************************************************************)
(* CacheDriver with a metering that may refuse a write                     *)
(***************************************************************************)
\* a set that updates cache and pending writes before it reports the write
SetMetered_CacheFirst(key, value, budget) ==
    IF budget < 1
    THEN /\ cache' = DictPut(cache, key, value)
         /\ pending_writes' = DictPut(pending_writes, key, value)
         /\ orm' = Call("CacheDriver", <<>>, "set", NoCoord, value,
                        "ResourceExhausted", "", None)
         /\ last' = [NoOp EXCEPT !.op = "set", !.key = key, !.val = value]
         /\ UNCHANGED <<db, reads, fetched, start_db, committed, events, other>>
    ELSE Set(key, value) /\ orm' = OrmNone

\* CacheDriver.set under a metering that accepts `budget` writes:
\* rt.deduct_write raises before the cache is touched
SetMetered(key, value, budget) ==
    IF budget < 1
    THEN /\ orm' = Call("CacheDriver", <<>>, "set", NoCoord, value,
                        "ResourceExhausted", "", None)
         /\ last' = [NoOp EXCEPT !.op = "set", !.key = key, !.val = value]
         /\ UNCHANGED DriverState
         /\ UNCHANGED <<events, other>>
    ELSE Set(key, value) /\ orm' = OrmNone

NextMeter ==
    \/ \E k \in Keys, v \in ValsOrNone, budget \in 0..1 : SetMetered(k, v, budget)
    \/ DoGet
    \/ DoCommit

SpecMeter == Init /\ [][NextMeter]_vars

(***************************************************************************)
(* Two CacheDriver instances over one backing store: the first sets and    *)
(* commits, the second sets the value 1 and commits                        *)
(***************************************************************************)
\* CacheDriver.set of the second driver
OtherSet(key, value) ==
    /\ other' = [other EXCEPT !.cache = DictPut(@, key, value),
                              !.pending_writes = DictPut(@, key, value)]
    /\ last' = [NoOp EXCEPT !.op = "other_set", !.key = key, !.val = value,
                            !.meter = << <<"write", key, value>> >>]
    /\ orm' = OrmNone
    /\ UNCHANGED <<db, cache, reads, pending_writes, fetched, start_db, committed, events>>

\* CacheDriver.commit of the second driver
OtherCommit ==
    /\ db' = CommitLoop(db, other.pending_writes, DOMAIN other.pending_writes)
    /\ other' = [other EXCEPT !.after = IF committed
                                        THEN @ \cup DOMAIN other.pending_writes ELSE @]
    /\ last' = [NoOp EXCEPT !.op = "other_commit",
                   !.dbops = { <<"set", k, other.pending_writes[k]>> :
                                  k \in DOMAIN other.pending_writes }]
    /\ orm' = OrmNone
    /\ UNCHANGED <<cache, reads, pending_writes, fetched, start_db, committed, events>>

NextTwo ==
    \/ \E k \in Keys, v \in Vals : Set(k, v) /\ orm' = OrmNone
    \/ DoCommit
    \/ \E k \in Keys : OtherSet(k, 1)
    \/ OtherCommit

SpecTwo == Init /\ [][NextTwo]_vars

(***************************************************************************)
(* Foreign aliases: ForeignHash("d", "h") of Hash("c", "f") and            *)
(* ForeignVariable("d", "w") of Variable("c", "v"), on the same driver     *)
(***************************************************************************)
TheVariable == Variable(<<99>>, <<118>>, NoType)
TheForeignHash == ForeignHash(<<100>>, <<104>>, <<99>>, <<102>>)
TheForeignVariable == ForeignVariable(<<100>>, <<119>>, <<99>>, <<118>>)

\* coordinates used through the alias and its owner: '1', '1:2'
ForeignCoords == { Scalar(<<49>>), Scalar(<<49, 58, 50>>) }

ForeignGetItem == \E h \in {TheHash, TheForeignHash}, key \in ForeignCoords : GetItem(h, key)
ForeignSetItem ==
    \E h \in {TheHash, TheForeignHash}, key \in ForeignCoords, v \in ValsOrNone :
        SetItem(h, key, v)
ForeignSetRaw ==
    \E h \in {TheHash, TheForeignHash}, v \in ValsOrNone : SetRaw(h, Scalar(<<49>>), v)
ForeignAll == \E h \in {TheHash, TheForeignHash} : All(h, Tuple(<<>>))
ForeignClear == \E h \in {TheHash, TheForeignHash} : Clear(h, Tuple(<<>>))
ForeignVarSet ==
    \E v \in {TheVariable, TheForeignVariable}, value \in ValsOrNone : VarSet(v, value)
ForeignVarGet == \E v \in {TheVariable, TheForeignVariable} : VarGet(v)

NextForeign ==
    \/ ForeignGetItem \/ ForeignSetItem \/ ForeignSetRaw \/ ForeignAll \/ ForeignClear
    \/ ForeignVarSet \/ ForeignVarGet \/ DoCommit

SpecForeign == Init /\ [][NextForeign]_vars

TypeOK ==
    /\ DOMAIN db \subseteq Keys
    /\ DOMAIN cache \subseteq Keys
    /\ \A k \in DOMAIN cache : cache[k] \in ValsOrNone
    /\ reads \subseteq Keys
    /\ fetched \subseteq Keys
    /\ DOMAIN pending_writes \subseteq Keys
    /\ db \in Stores
    /\ start_db \in Stores
    /\ committed \in BOOLEAN


(***************************************************************************)
(* Properties                                                              *)
(***************************************************************************)
\* the key of the last call is staged with a value that is not None
StagedValue(k) == k \in DOMAIN pending_writes /\ pending_writes[k] # None

\* C1: read-your-writes.  pending_writes[k] is the value of the last
\* set(k, .) since the last reset; when it is not None, a get(k) returns it
\* and makes no Driver call, whatever the store holds for k.
C1_ReadYourWrites ==
    (last.op = "get" /\ StagedValue(last.key))
        => (last.ret = pending_writes[last.key] /\ last.dbops = {})

\* a get of a staged key while the store holds another value for it
C1_Witness ==
    /\ last.op = "get"
    /\ StagedValue(last.key)
    /\ last.ret = pending_writes[last.key]
    /\ Driver_get(db, last.key) \notin {None, pending_writes[last.key]}

\* C2: pre-commit isolation.  get and set make no Driver.set call, and as
\* long as commit() has not been called in the execution the store holds
\* what it held when the execution started.
C2_PreCommitIsolation ==
    /\ (last.op \in {"get", "set"}) => (\A o \in last.dbops : o[1] # "set")
    /\ (~committed) => (db = start_db)

\* a set(k, v) after which the store still holds another value for k
C2_Witness ==
    /\ last.op = "set"
    /\ ~committed
    /\ last.val # None
    /\ Driver_get(db, last.key) \notin {None, last.val}
    /\ DictGet(cache, last.key) = last.val

\* C3: commit() makes the store its former contents overridden by the
\* pending-write set: a pending (k, v) is stored as v, a pending (k, None)
\* leaves k absent, every other key keeps its bytes.
C3_CommitApplies ==
    [][ (last'.op = "commit") =>
          \A k \in Keys :
             IF k \in DOMAIN pending_writes
             THEN /\ Driver_get(db', k) = pending_writes[k]
                  /\ (pending_writes[k] = None) => (k \notin DOMAIN db')
             ELSE RawGet(db', k) = RawGet(db, k) ]_vars

\* a commit that stored one key, removed a persisted one
C3_Witness ==
    /\ last.op = "commit"
    /\ \E k \in DOMAIN pending_writes :
          pending_writes[k] = None /\ k \in DOMAIN start_db /\ k \notin DOMAIN db
    /\ \E k \in DOMAIN pending_writes :
          pending_writes[k] # None /\ Driver_get(db, k) = pending_writes[k]
                                   /\ Driver_get(start_db, k) # pending_writes[k]

\* C4: commit idempotence.  A commit() right after a commit() (the
\* pending-write set is unchanged in between) leaves the store as the first
\* one left it.
C4_CommitIdempotent ==
    [][ (last.op = "commit" /\ last'.op = "commit") => (db' = db) ]_vars

\* a second commit in a row, of writes and deletes that changed the store
C4_Witness ==
    /\ last.op = "commit"
    /\ last.again
    /\ db # start_db
    /\ \E k \in DOMAIN pending_writes : pending_writes[k] # None
    /\ \E k \in DOMAIN pending_writes : pending_writes[k] = None

\* C5: commit() leaves cache, read set and pending-write set as they were,
\* and a step that empties one of them is a clear_pending_state().
C5_CommitKeepsPending ==
    [][ /\ (last'.op = "commit") =>
             (cache' = cache /\ reads' = reads /\ pending_writes' = pending_writes)
        /\ ( \/ (DOMAIN cache # {} /\ DOMAIN cache' = {})
             \/ (reads # {} /\ reads' = {})
             \/ (DOMAIN pending_writes # {} /\ DOMAIN pending_writes' = {}) )
             => (last'.op = "clear") ]_vars

\* a commit with all three non-empty
C5_Witness ==
    /\ last.op = "commit"
    /\ DOMAIN cache # {}
    /\ reads # {}
    /\ DOMAIN pending_writes # {}
    /\ db # start_db

\* C6: rollback.  A clear_pending_state() in an execution that did not
\* commit leaves cache, read set and pending-write set empty and the store
\* as it was when the execution started; the get(k) that follows returns
\* what is persisted for k; the commit() that follows writes nothing.
C6_Rollback ==
    [][ /\ (last'.op = "clear" /\ ~committed) =>
             /\ DOMAIN cache' = {}
             /\ reads' = {}
             /\ DOMAIN pending_writes' = {}
             /\ db' = start_db
             /\ start_db' = start_db
        /\ (last.op = "clear" /\ last'.op = "get") =>
             /\ last'.ret = Driver_get(start_db, last'.key)
             /\ last'.dbops = { <<"get", last'.key>> }
        /\ (last.op = "clear" /\ last'.op = "commit") =>
             (last'.dbops = {} /\ db' = db) ]_vars

\* a reset that dropped staged writes never committed, over a store that
\* holds something
C6_Witness ==
    /\ last.op = "clear"
    /\ last.dropped # {}
    /\ ~last.wascommitted
    /\ DOMAIN db # {}

\* C7: clear_pending_state() does not change the store, and the get(k) that
\* follows it returns what is persisted for k.
C7_ClearKeepsStore ==
    [][ /\ (last'.op = "clear") => (db' = db)
        /\ (last.op = "clear" /\ last'.op = "get") =>
             (last'.ret = Driver_get(db, last'.key)) ]_vars

\* a reset after a commit of staged writes, the store holding something
C7_Witness ==
    /\ last.op = "clear"
    /\ last.wascommitted
    /\ last.dropped # {}
    /\ \E k \in last.dropped : k \in DOMAIN db

\* C8: between two resets CacheDriver.get fetches a key from the Driver at
\* most once.
C8_AtMostOneFetch ==
    (last.op = "get") => ~last.refetch

\* the keys under the prefix that are cached or persisted and not logically
\* deleted (a cached None hides the key)
LogicalKeys(prefix) ==
    {k \in Keys : /\ StartsWith(k, prefix)
                  /\ k \in (DOMAIN cache) \cup (DOMAIN db)
                  /\ ~(k \in DOMAIN cache /\ cache[k] = None)}

LogicalValue(k) == IF k \in DOMAIN cache THEN cache[k] ELSE Driver_get(db, k)

\* C9: items(prefix) maps exactly the logical keys under the prefix, a
\* cached key to its cached value and any other to its persisted value;
\* values(prefix) is the collection of those values.
C9_ItemsMerge ==
    /\ (last.op = "items") =>
          /\ DOMAIN last.items = LogicalKeys(last.key)
          /\ \A k \in DOMAIN last.items : last.items[k] = LogicalValue(k)
    /\ (last.op = "values") =>
          \A v \in ValsOrNone :
             CopiesIn(v, last.vals) =
                Cardinality({k \in LogicalKeys(last.key) : LogicalValue(k) = v})

\* C10: no entry of items(prefix), and no element of values(prefix), is None.
C10_ItemsNoNone ==
    /\ (last.op = "items") => (\A k \in DOMAIN last.items : last.items[k] # None)
    /\ (last.op = "values") => (CopiesIn(None, last.vals) = 0)

(***************************************************************************)
(* Properties of the ORM bindings                                          *)
(***************************************************************************)
\* what a get of k returns: a cached value other than None, else the
\* persisted one
VisibleValue(k) == IF DictGet(cache, k) # None THEN cache[k] ELSE Driver_get(db, k)

\* the dimensions of a coordinate string
RECURSIVE SplitDims(_)
SplitDims(s) ==
    IF ~Contains(s, DELIMITER) THEN <<s>>
    ELSE LET i == CHOOSE j \in 1..Len(s) :
                     /\ s[j] = DELIMITER[1]
                     /\ \A m \in 1..(j - 1) : s[m] # DELIMITER[1]
         IN  <<SubSeq(s, 1, i - 1)>> \o SplitDims(SubSeq(s, i + 1, Len(s)))

\* the coordinate under which the map h holds the key k
CoordOf(h, k) == SplitDims(SubSeq(k, Len(h.key) + 2, Len(k)))

\* the coordinate dims extends the dimensions p
Extends(dims, p) == Len(p) <= Len(dims) /\ SubSeq(dims, 1, Len(p)) = p

\* C11: right after a successful clear(*p), _items(*p) is empty: no entry
\* under the sub-prefix is left, staged or persisted.
C11_ClearEmpties ==
    (orm.op = "clear" /\ orm.err = "")
        => (DOMAIN items(prefix_for_args(TheHash, orm.coord)) = {})

\* C12: a successful clear(*p) changes no entry whose coordinate does not
\* start with the dimensions p: a get of it returns what it returned before.
C12_ClearFrame ==
    [][(orm'.op = "clear" /\ orm'.err = "")
          => \A k \in Keys :
                ~Extends(CoordOf(TheHash, k), orm'.coord.dims)
                    => (VisibleValue(k)' = VisibleValue(k))]_vars

\* C13: all(*p) returns exactly the values of the entries whose coordinate
\* extends p, staged ones included, each once, and nothing else.
C13_AllExact ==
    (orm.op = "all" /\ orm.err = "")
        => \A v \in ValsOrNone :
              CopiesIn(v, last.vals) =
                 Cardinality({k \in Keys :
                                 /\ Extends(CoordOf(TheHash, k), orm.coord.dims)
                                 /\ VisibleValue(k) # None
                                 /\ VisibleValue(k) = v})

\* a well-formed coordinate apart from its number of dimensions: no
\* dimension holds the delimiter or the separator, and the composed key is
\* within the size limit
WellFormed(h, coord) ==
    /\ \A i \in DOMAIN coord.dims :
          /\ ~Contains(coord.dims[i], DELIMITER)
          /\ ~Contains(coord.dims[i], INDEX_SEPARATOR)
    /\ Len(make_key_args(coord.dims)) + Len(h.key) <= MAX_KEY_SIZE

\* C14: a get or set with more than MAX_HASH_DIMENSIONS dimensions fails
\* with the validation error; one with exactly MAX_HASH_DIMENSIONS
\* dimensions, otherwise well-formed, succeeds.
C14_DimensionBound ==
    (orm.op \in {"getitem", "setitem"} /\ orm.coord.tuple) =>
        /\ (Len(orm.coord.dims) > MAX_HASH_DIMENSIONS) => (orm.err = "AssertionError")
        /\ (Len(orm.coord.dims) = MAX_HASH_DIMENSIONS /\ WellFormed(TheHash, orm.coord))
              => (orm.err = "")

\* a set with MAX_HASH_DIMENSIONS + 1 dimensions has failed, after one with
\* MAX_HASH_DIMENSIONS dimensions was staged
C14_Witness ==
    /\ orm.op = "setitem" /\ orm.err = "AssertionError"
    /\ orm.coord.tuple /\ Len(orm.coord.dims) = MAX_HASH_DIMENSIONS + 1
    /\ \E k \in DOMAIN pending_writes :
          Len(CoordOf(TheHash, k)) = MAX_HASH_DIMENSIONS /\ pending_writes[k] # None

\* a dimension holds the field delimiter or the argument separator
Injected(coord) ==
    \E i \in DOMAIN coord.dims :
        Contains(coord.dims[i], DELIMITER) \/ Contains(coord.dims[i], INDEX_SEPARATOR)

\* C15: get, set, all and clear fail with the validation error whenever a
\* dimension's string form holds the field delimiter or the argument
\* separator.
C15_NoInjection ==
    (orm.op \in {"getitem", "setitem", "all", "clear"} /\ Injected(orm.coord))
        => (orm.err = "AssertionError")

\* a set of a scalar holding the separator has failed while a value is staged
C15_Witness ==
    /\ orm.op = "setitem" /\ orm.err = "AssertionError"
    /\ ~orm.coord.tuple /\ Contains(orm.coord.dims[1], INDEX_SEPARATOR)
    /\ \E k \in DOMAIN pending_writes : pending_writes[k] # None

\* C16: every key a get or set of the map passes to the driver is at most
\* MAX_KEY_SIZE long, prefix and coordinate together.
C16_KeyWithinBudget ==
    (orm.op \in {"getitem", "setitem"} /\ orm.err = "") => (Len(last.key) <= MAX_KEY_SIZE)

\* C17: a call that fails validation leaves the cache, the read set, the
\* pending writes and the store as they were, makes no Driver call and no
\* metering event.
C17_ValidateFirst ==
    [][(orm'.err = "AssertionError")
          => /\ UNCHANGED <<cache, reads, pending_writes, db>>
             /\ last'.meter = <<>>
             /\ last'.dbops = {}]_vars

\* a set has failed validation while a value is staged and another persisted
C17_Witness ==
    /\ orm.op = "setitem" /\ orm.err = "AssertionError"
    /\ \E k \in DOMAIN pending_writes : pending_writes[k] # None
    /\ \E k \in Keys : Driver_get(db, k) # None

ForeignObjs == {"ForeignHash", "ForeignVariable"}

\* C18: set, item assignment and _set through a foreign binding fail with
\* ReferenceError and change neither cache, pending writes nor store; no
\* call through a foreign binding changes the pending writes, the store or
\* the value a get of a key of the target returns.
C18_ForeignReadOnly ==
    [][(orm'.obj \in ForeignObjs)
          => /\ (orm'.op \in {"set", "setitem", "_set"})
                   => /\ orm'.err = "ReferenceError"
                      /\ UNCHANGED <<cache, pending_writes, db>>
             /\ UNCHANGED <<pending_writes, db>>
             /\ \A k \in Keys \cup {TheVariable.key} :
                   VisibleValue(k)' = VisibleValue(k)]_vars

\* an item assignment through the alias has failed while the owner has a
\* value staged for the same coordinate
C18_Witness ==
    /\ orm.obj = "ForeignHash" /\ orm.op = "setitem" /\ orm.err = "ReferenceError"
    /\ \E k \in Keys : StagedValue(k) /\ CoordOf(TheHash, k) = orm.coord.dims

\* C19: clear through the alias fails with the error of set and item
\* assignment (ReferenceError).
C19_ForeignClearDenied ==
    (orm.obj = "ForeignHash" /\ orm.op = "clear") => (orm.err = "ReferenceError")

\* what the owner's h[coord] returns
OwnerGetItem(coord) ==
    LET v == VisibleValue(hash_key(TheHash, validate_key(coord).key))
    IN  IF v = None THEN TheHash.default_value ELSE v

\* C20: a read through the alias returns what the same read through the
\* owner returns, and reads the owner's key.
C20_AliasReadsAsOwner ==
    /\ (orm.obj = "ForeignHash" /\ orm.op = "getitem" /\ orm.err = "")
          => /\ orm.ret = OwnerGetItem(orm.coord)
             /\ StartsWith(last.key, TheHash.key)
    /\ (orm.obj = "ForeignVariable" /\ orm.op = "get")
          => /\ orm.ret = VisibleValue(TheVariable.key)
             /\ last.key = TheVariable.key

\* the value the layer resolves for k: the cached one when k is cached (None
\* for a deleted key), else the persisted one
Resolved(k) == IF k \in DOMAIN cache THEN cache[k] ELSE Driver_get(db, k)

\* C21: h[coordinate] returns default_value exactly when the value resolved
\* at the coordinate before the call is None (never set, or deleted), and
\* the stored value otherwise, also when that is 0, False or the default;
\* without a default an unset coordinate gives None.
C21_DefaultWhenNone ==
    [][(orm'.op = "getitem" /\ orm'.err = "")
          => \A h \in DefaultHashes :
                (orm'.bind = <<h.contract, h.name>>)
                    => LET r == Resolved(last'.key)
                       IN  orm'.ret = IF r = None THEN h.default_value ELSE r]_vars

\* the type each cell was declared with
Declared(v) ==
    IF v = IntCell THEN Class("int")
    ELSE IF v = TupleCell THEN ClassTuple(<<"int", "str">>)
    ELSE NoType

\* the value's kind is one of the declared kinds
KindMatches(value, t) == \E i \in DOMAIN t.types : type(value) = t.types[i]

\* C22: set(value) on a cell with a declared type fails with the type error
\* whenever the value's kind is not a declared one, and then stages nothing;
\* when the kind matches or no type is declared, the value is staged at the
\* cell's key.
C22_TypedSet ==
    [][(orm'.obj = "Variable" /\ orm'.op = "set")
          => \A v \in Cells :
                (orm'.bind = <<v.contract, v.name>>)
                    => IF Declared(v) # NoType /\ ~KindMatches(orm'.data, Declared(v))
                       THEN /\ orm'.err = "AssertionError"
                            /\ UNCHANGED <<cache, pending_writes>>
                       ELSE /\ orm'.err = ""
                            /\ DictGet(cache', v.key) = orm'.data
                            /\ DictGet(pending_writes', v.key) = orm'.data]_vars

\* C23: constructing an event channel succeeds exactly when the schema is
\* not empty, at most 3 arguments are flagged indexed and every declared
\* kind is one of str, int, float, ContractingDecimal, bool; so 4 indexed
\* arguments fail, exactly 3 succeed, and a list or custom type fails.
C23_SchemaAccepted ==
    (orm.op = "__init__")
        => (orm.err = ""
              <=> /\ Len(orm.data) > 0
                  /\ Cardinality({i \in DOMAIN orm.data : orm.data[i].idx}) <= 3
                  /\ \A i \in DOMAIN orm.data :
                        \A j \in DOMAIN orm.data[i].type.types :
                            orm.data[i].type.types[j]
                                \in {"str", "int", "float", "ContractingDecimal", "bool"})

\* a schema of four arguments, exactly three of them indexed, was accepted
C23_Witness ==
    /\ orm.op = "__init__"
    /\ orm.err = ""
    /\ Len(orm.data) = 4
    /\ Cardinality({i \in DOMAIN orm.data : orm.data[i].idx}) = 3

\* the argument names of a channel's schema
SchemaNames(le) == {le.args[i].name : i \in DOMAIN le.args}

\* C24: write_event fails when the number of arguments of event_data is not
\* the schema's (the empty event_data included) and when a name of the
\* schema is missing from event_data; no write is metered and no event is
\* logged by the failed call.
C24_CountAndNames ==
    (/\ orm.op = "write_event"
     /\ \/ Cardinality(DOMAIN orm.data) # Len(TransferEvent.args)
        \/ \E n \in SchemaNames(TransferEvent) : n \notin DOMAIN orm.data)
        => /\ orm.err = "AssertionError"
           /\ last.op = "none"

\* event_data with every argument of the schema and one more was refused
C24_Witness ==
    /\ orm.op = "write_event"
    /\ orm.err = "AssertionError"
    /\ SchemaNames(TransferEvent) \subseteq DOMAIN orm.data
    /\ Cardinality(DOMAIN orm.data) = Len(TransferEvent.args) + 1

\* the arguments of the schema whose value in event_data is of none of the
\* kinds declared for them
WrongKind(le, event_data) ==
    { le.args[i].name : i \in { j \in DOMAIN le.args :
          \A t \in DOMAIN le.args[j].type : type(event_data[le.args[j].name]) # le.args[j].type[t] } }

\* C25: write_event fails, naming the offending argument, whenever
\* event_data has exactly the arguments of the schema but some value is of
\* none of the kinds declared for its argument; the argument named is one
\* whose value is wrong.
C25_WrongKindNamed ==
    (/\ orm.op = "write_event"
     /\ DOMAIN orm.data = SchemaNames(TransferEvent)
     /\ WrongKind(TransferEvent, orm.data) # {})
        => /\ orm.err = "AssertionError"
           /\ orm.arg \in WrongKind(TransferEvent, orm.data)

\* C26: write_event with as many arguments as the schema, one of them under
\* a name the schema does not have, fails with the error "Unexpected
\* argument <name> in the data dictionary." that names that argument.
C26_UnexpectedNamed ==
    (/\ orm.op = "write_event"
     /\ Cardinality(DOMAIN orm.data) = Len(TransferEvent.args)
     /\ DOMAIN orm.data \ SchemaNames(TransferEvent) # {})
        => /\ orm.err = "AssertionError"
           /\ orm.msg = "Unexpected argument in the data dictionary."
           /\ orm.arg \in DOMAIN orm.data \ SchemaNames(TransferEvent)

\* C27: a successful write_event appends exactly one record to the event
\* log, with the channel's contract and event name; indexed_args and
\* non_indexed_args are disjoint, together they hold exactly the schema's
\* arguments with the values of event_data, an argument is indexed iff the
\* schema flags it, and one write per argument is metered; a call that
\* fails, at a metering write included, appends nothing.
C27_EventRecord ==
    [][(orm'.op = "write_event")
          => IF orm'.err # "" THEN events' = events
             ELSE LET le == TransferEvent
                      d == orm'.data
                      rec == events'[Len(events')]
                  IN  /\ events' = Append(events, rec)
                      /\ rec.contract = le.contract
                      /\ rec.event = le.name
                      /\ DOMAIN rec.indexed_args \cap DOMAIN rec.non_indexed_args = {}
                      /\ DOMAIN rec.indexed_args \cup DOMAIN rec.non_indexed_args
                            = SchemaNames(le)
                      /\ \A n \in DOMAIN rec.indexed_args : rec.indexed_args[n] = d[n]
                      /\ \A n \in DOMAIN rec.non_indexed_args : rec.non_indexed_args[n] = d[n]
                      /\ \A i \in DOMAIN le.args :
                            le.args[i].name \in DOMAIN rec.indexed_args <=> le.args[i].idx
                      /\ Len(last'.meter) = Len(le.args)
                      /\ \A n \in SchemaNames(le) :
                            Cardinality({i \in DOMAIN last'.meter :
                                            last'.meter[i] = <<"write", n, encode(d[n])>>}) = 1]_vars

\* an event was logged after its three arguments were metered
C27_Witness ==
    /\ orm.op = "write_event"
    /\ orm.err = ""
    /\ Len(events) >= 1
    /\ Len(last.meter) = Len(TransferEvent.args)

\* C28: every access to keyed state is metered: get reports exactly one read
\* of (key, value returned), on a cache hit and on a miss; set reports
\* exactly one write of (key, value); items and values report a read for
\* every value they fetch from the backing store.
C28_EveryAccessMetered ==
    /\ (last.op = "get") => last.meter = << <<"read", last.key, last.ret>> >>
    /\ (last.op = "set") => last.meter = << <<"write", last.key, last.val>> >>
    /\ (last.op \in {"items", "values"})
          => \A o \in last.dbops :
                (o[1] = "get")
                    => \E i \in DOMAIN last.meter :
                          last.meter[i] = <<"read", o[2], Driver_get(db, o[2])>>

\* a call that addressed a key of the driver for a binding
Addressed(o, l) ==
    /\ o.err = ""
    /\ o.op \in {"getitem", "setitem", "get", "set"}
    /\ l.op \in {"get", "set"}

\* C29: keys do not collide: two calls that address the same key were made
\* on bindings of the same (contract, field) pair and of the same sort (two
\* maps or two cells), and for a map with the same dimensions in the
\* coordinate.
C29_CollisionFree ==
    [][(Addressed(orm, last) /\ Addressed(orm', last') /\ last'.key = last.key)
          => /\ orm'.bind = orm.bind
             /\ orm'.obj = orm.obj
             /\ orm'.coord.dims = orm.coord.dims]_vars

\* C30: make_key(contract, field, coordinate) returns contract, the field
\* delimiter, field and then the argument separator and c for every element
\* c of the coordinate; the key a map addresses for the coordinate
\* (c1, ..., cn) is exactly that string; a cell addresses
\* make_key(contract, field).
C30_KeyFormat ==
    /\ (orm.op = "make_key")
          => /\ orm.err = ""
             /\ last.key = orm.bind[1] \o INDEX_SEPARATOR \o orm.bind[2]
                              \o make_key_args(orm.coord.dims)
    /\ (orm.op \in {"getitem", "setitem"} /\ orm.err = "")
          => last.key = orm.bind[1] \o INDEX_SEPARATOR \o orm.bind[2]
                           \o make_key_args(StrDims(orm.coord.dims))
    /\ (orm.obj = "Variable" /\ orm.op \in {"get", "set"} /\ orm.err = "")
          => last.key = orm.bind[1] \o INDEX_SEPARATOR \o orm.bind[2]

\* C31: a deletion is read back too: while the last set(k, .) of the
\* execution was set(k, None), a get(k) returns None and the cache holds
\* None for k, whatever the store still holds for k.
C31_DeleteReadBack ==
    (/\ last.op = "get"
     /\ last.key \in DOMAIN pending_writes
     /\ pending_writes[last.key] = None)
        => /\ last.ret = None
           /\ last.key \in DOMAIN cache
           /\ cache[last.key] = None

\* C32: the read set is exact: a key is in it iff its value was fetched
\* from the backing store through the driver since the last
\* clear_pending_state(), by get or on behalf of items and values; a key
\* only written, or only served from the cache, is not in it.
C32_ReadSetExact ==
    /\ reads = fetched
    /\ (last.op \in {"items", "values"})
          => \A o \in last.dbops : (o[1] = "get") => o[2] \in reads

\* the persisted keys that start with the prefix
Matching(prefix) == {k \in DOMAIN db : StartsWith(k, prefix)}

\* C33: iter(prefix, length) returns the persisted keys that start with
\* prefix in ascending byte order and without duplicates: all of them when
\* length = 0, the first `length` of them (all if there are fewer) when
\* length > 0; none when no key starts with prefix, and never the sentinel.
C33_IterPrefix ==
    (last.op = "iter")
        => LET r == last.keys
               M == Matching(last.key)
           IN  /\ \A i, j \in DOMAIN r : (i < j) => BytesLess(r[i], r[j])
               /\ Range(r) \subseteq M
               /\ (last.val = 0) => Range(r) = M
               /\ (last.val > 0)
                     => /\ Len(r) = IF Cardinality(M) < last.val
                                    THEN Cardinality(M) ELSE last.val
                        /\ \A k \in M \ Range(r) : \A x \in Range(r) : BytesLess(x, k)
               /\ (M = {}) => r = <<>>
               /\ STOP_ITER_RESPONSE \notin Range(r)

\* iter('a', 2) over a store with three keys under 'a' returned the first two
C33_Witness ==
    /\ last.op = "iter"
    /\ last.val = 2
    /\ Cardinality(Matching(last.key)) = 3
    /\ last.keys = << <<97>>, <<97, 98>> >>

\* C34: a write_event that fails a check of the count, of a missing
\* argument or of the kind of a value has reported no write to metering and
\* has appended no record to the event log.
C34_FailedEmitNoEffect ==
    [][(orm'.op = "write_event" /\ orm'.err = "AssertionError")
          => /\ events' = events
             /\ last'.meter = <<>>
             /\ UNCHANGED <<db, cache, reads, pending_writes>>]_vars

\* the value of the last argument, which is not indexed, was of a wrong
\* kind after one event had been logged
C34_Witness ==
    /\ orm.op = "write_event"
    /\ orm.err = "AssertionError"
    /\ orm.msg = "Argument is the wrong type!"
    /\ orm.arg = "amount"
    /\ last.meter = <<>>
    /\ Len(events) = 1

\* C35: the signer and caller of an event record are those of rt.context
\* at the write_event call that logged it; the records logged before keep
\* theirs.
C35_ContextAtEmit ==
    [][(orm'.op = "write_event" /\ orm'.err = "")
          => /\ Len(events') = Len(events) + 1
             /\ events'[Len(events')].signer = orm'.context.signer
             /\ events'[Len(events')].caller = orm'.context.caller
             /\ \A i \in DOMAIN events : events'[i] = events[i]]_vars

\* one channel logged two events under two signers
C35_Witness ==
    /\ Len(events) = 2
    /\ orm.op = "write_event"
    /\ orm.err = ""
    /\ events[1].signer = "alice"
    /\ events[2].signer = "bob"
    /\ orm.context.signer = "bob"

\* C36: every key of the pending-write set is in the cache with the same
\* value, so what get(k) returns is what commit() will persist for k.
C36_CachePendingAgree ==
    \A k \in DOMAIN pending_writes :
        k \in DOMAIN cache /\ cache[k] = pending_writes[k]

\* C37: when metering raises during set(k, v) the call fails and leaves the
\* cache, the read set, the pending-write set and the store as they were:
\* the write is not visible to a get and not applied by a commit.
C37_ExhaustedSetNoEffect ==
    [][(orm'.obj = "CacheDriver" /\ orm'.op = "set" /\ orm'.err = "ResourceExhausted")
          => UNCHANGED <<cache, reads, pending_writes, db>>]_vars

\* a set(k, v) was refused while the cache holds another value for k
C37_Witness ==
    /\ orm.obj = "CacheDriver"
    /\ orm.err = "ResourceExhausted"
    /\ last.op = "set"
    /\ last.val # None
    /\ DictGet(cache, last.key) \notin {None, last.val}
    /\ DictGet(pending_writes, last.key) # last.val

\* C38: items(prefix) and values(prefix) are queries: they leave the cache,
\* the read set, the pending-write set and the store as they were, so no
\* later get, items or commit is changed by them.
C38_QueriesPure ==
    [][(last'.op \in {"items", "values"})
          => UNCHANGED <<cache, reads, pending_writes, db>>]_vars

\* items fetched a persisted key that is not in the cache, and the cache
\* still does not hold it
C38_Witness ==
    /\ last.op = "items"
    /\ \E k \in DOMAIN last.items : k \notin DOMAIN cache /\ k \in DOMAIN db
    /\ DOMAIN cache # {}

\* the coordinate dims has the dimensions p and at least one more
StrictlyExtends(dims, p) == Len(p) < Len(dims) /\ SubSeq(dims, 1, Len(p)) = p

\* C39: for dimensions p, not none, all(*p), _items(*p) and clear(*p) take
\* only the entries with the dimensions p and at least one more: not the
\* entry at exactly p, which clear leaves as it is, and not an entry whose
\* first dimension only begins with the text of p.
C39_StrictSubPrefix ==
    [][(/\ orm'.op \in {"all", "_items", "clear"}
        /\ orm'.err = ""
        /\ orm'.coord.dims # <<>>)
          => /\ \A k \in DOMAIN items(last'.key) :
                    StrictlyExtends(CoordOf(TheHash, k), orm'.coord.dims)
             /\ \A args \in ArgTuples :
                    (args = orm'.coord)
                        => LET exact == hash_key(TheHash, validate_key(args).key)
                           IN  VisibleValue(exact)' = VisibleValue(exact)]_vars

\* C40: with a second driver on the same store, a commit() of the first
\* writes exactly the keys of its pending-write set, all of them on every
\* commit and none of them removed from the set: a key the second driver
\* committed in between is overwritten with the first driver's pending
\* value, and a key the first driver never set stays as it is in the store.
C40_CommitOverwrites ==
    [][(last'.op = "commit")
          => /\ pending_writes' = pending_writes
             /\ \A k \in Keys :
                   RawGet(db', k) =
                      IF k \in DOMAIN pending_writes
                      THEN IF pending_writes[k] = None THEN Absent
                           ELSE encode(pending_writes[k])
                      ELSE RawGet(db, k)]_vars

\* a second commit() of the first driver has put its pending value back
\* over the value the second driver committed in between, and has left a
\* key it never set as the second driver committed it
C40_Witness ==
    /\ last.op = "commit"
    /\ \E k \in other.after \cap DOMAIN pending_writes :
          /\ other.pending_writes[k] # pending_writes[k]
          /\ Driver_get(db, k) = pending_writes[k]
    /\ \E k \in DOMAIN other.pending_writes \ DOMAIN pending_writes :
          Driver_get(db, k) = other.pending_writes[k]

====
